---- MODULE Spec2Model ----
(***************************************************************************)
(* Model of the flow crate of cqf: the arithmetic expression evaluator     *)
(* (flow/src/evaluator.rs) and the decision graph compiler                 *)
(* (flow/src/graph.rs, flow/src/rule.rs).                                  *)
(*                                                                         *)
(* An expression string is modelled by the sequence of its whitespace-     *)
(* delimited fragments; a fragment is a sequence of one-character strings. *)
(* An f64 is modelled by a record [nan, v]: either the integer v or NaN    *)
(* (the only non-integer value the registered operators can produce from   *)
(* integer literals, through x % 0).                                       *)
(***************************************************************************)
EXTENDS Integers, Sequences, FiniteSets, TLC

VARIABLES pc, expr, data, tokens, postfix, result, value, flow, graph, tasks, run

vars == <<pc, expr, data, tokens, postfix, result, value, flow, graph, tasks, run>>

(***************************************************************************)
(* f64 values and arithmetic                                               *)
(***************************************************************************)
Num(n) == [nan |-> FALSE, v |-> n]

NaN == [nan |-> TRUE, v |-> 0]

Some(x) == [some |-> TRUE, val |-> x]

None == [some |-> FALSE]

unwrap_or(o, d) == IF o.some THEN o.val ELSE d

AbsInt(n) == IF n < 0 THEN -n ELSE n

\* f64 `%` is the truncated remainder (sign of the dividend); x % 0 is NaN.
RemInt(a, b) == IF a < 0 THEN -((-a) % AbsInt(b)) ELSE a % AbsInt(b)

f64_add(a, b) == IF a.nan \/ b.nan THEN NaN ELSE Num(a.v + b.v)

f64_sub(a, b) == IF a.nan \/ b.nan THEN NaN ELSE Num(a.v - b.v)

f64_mul(a, b) == IF a.nan \/ b.nan THEN NaN ELSE Num(a.v * b.v)

f64_rem(a, b) == IF a.nan \/ b.nan \/ b.v = 0 THEN NaN ELSE Num(RemInt(a.v, b.v))

f64_abs(a) == IF a.nan THEN NaN ELSE Num(AbsInt(a.v))

(***************************************************************************)
(* Tokens                                                                  *)
(***************************************************************************)
Number(n) == [type |-> "Number", num |-> n]

Variable(name) == [type |-> "Variable", name |-> name]

Operator(sym) == [type |-> "Operator", op |-> sym]

LeftParen == [type |-> "LeftParen"]

RightParen == [type |-> "RightParen"]

Digits == {"0", "1", "2", "3", "4", "5", "6", "7", "8", "9"}

DigitVal(c) == CASE c = "0" -> 0 [] c = "1" -> 1 [] c = "2" -> 2 [] c = "3" -> 3
                 [] c = "4" -> 4 [] c = "5" -> 5 [] c = "6" -> 6 [] c = "7" -> 7
                 [] c = "8" -> 8 [] c = "9" -> 9

RECURSIVE DecimalVal(_)
DecimalVal(s) == IF s = <<>> THEN 0
                 ELSE 10 * DecimalVal(SubSeq(s, 1, Len(s) - 1)) + DigitVal(s[Len(s)])

AllDigits(s) == Len(s) > 0 /\ \A i \in 1..Len(s) : s[i] \in Digits

\* str::parse::<f64> on the decimal-integer part of the float grammar:
\* an optional sign followed by at least one digit.
parse_f64(s) ==
    IF AllDigits(s) THEN Some(Num(DecimalVal(s)))
    ELSE IF Len(s) > 1 /\ s[1] = "-" /\ AllDigits(Tail(s)) THEN Some(Num(-DecimalVal(Tail(s))))
    ELSE IF Len(s) > 1 /\ s[1] = "+" /\ AllDigits(Tail(s)) THEN Some(Num(DecimalVal(Tail(s))))
    ELSE None

\* faulty variant: the variable name keeps its sigil
Token_from_str_keep_sigil(s) ==
    IF s = <<"(">> THEN LeftParen
    ELSE IF s = <<")">> THEN RightParen
    ELSE IF parse_f64(s).some THEN Number(parse_f64(s).val)
    ELSE IF Len(s) > 0 /\ s[1] = "$" THEN Variable(s)
    ELSE Operator(s)

Token_from_str(s) ==
    IF s = <<"(">> THEN LeftParen
    ELSE IF s = <<")">> THEN RightParen
    ELSE IF parse_f64(s).some THEN Number(parse_f64(s).val)
    ELSE IF Len(s) > 0 /\ s[1] = "$" THEN Variable(Tail(s))
    ELSE Operator(s)

(***************************************************************************)
(* Operator registry                                                       *)
(***************************************************************************)
ADD == <<"+">>

SUB == <<"-">>

MUL == <<"*">>

MOD == <<"%">>

ABS == <<"a", "b", "s">>

AddOperator == [precedence |-> 1, is_unary |-> FALSE]

SubtractOperator == [precedence |-> 1, is_unary |-> FALSE]

\* faulty variant: `*` registered with the precedence of `+`
MultiplyOperator_low == [precedence |-> 1, is_unary |-> FALSE]

MultiplyOperator == [precedence |-> 2, is_unary |-> FALSE]

ModuloOperator == [precedence |-> 2, is_unary |-> FALSE]

\* faulty variant: `abs` registered with the precedence of `*`
AbsOperator_prec2 == [precedence |-> 2, is_unary |-> TRUE]

AbsOperator == [precedence |-> 3, is_unary |-> TRUE]

OperatorFactory_new ==
    (ADD :> AddOperator) @@ (SUB :> SubtractOperator) @@ (MUL :> MultiplyOperator)
    @@ (MOD :> ModuloOperator) @@ (ABS :> AbsOperator)

get_operator(sym) ==
    IF sym \in DOMAIN OperatorFactory_new THEN Some(OperatorFactory_new[sym]) ELSE None

\* Operator::apply of the operator registered under sym
apply(sym, left, right) ==
    CASE sym = ADD -> f64_add(left, unwrap_or(right, Num(0)))
      [] sym = SUB -> f64_sub(left, unwrap_or(right, Num(0)))
      [] sym = MUL -> f64_mul(left, unwrap_or(right, Num(0)))
      [] sym = MOD -> f64_rem(left, unwrap_or(right, Num(0)))
      [] sym = ABS -> f64_abs(left)

(***************************************************************************)
(* Result<_, String>                                                       *)
(***************************************************************************)
Ok(x) == [ok |-> TRUE, val |-> x]

Err(msg, arg) == [ok |-> FALSE, err |-> msg, arg |-> arg]

(***************************************************************************)
(* Evaluator::tokenize                                                     *)
(***************************************************************************)
tokenize(e) ==
    [i \in 1..Len(e) |->
        IF e[i] = <<"(">> THEN LeftParen
        ELSE IF e[i] = <<")">> THEN RightParen
        ELSE Token_from_str(e[i])]

(***************************************************************************)
(* Evaluator::shunting_yard                                                *)
(* The parser state is [out, stack, err]: the output queue, the operator   *)
(* stack (top = last element) and the early-return error, if any.          *)
(***************************************************************************)
NoErr == [some |-> FALSE]

Last(s) == s[Len(s)]

Front(s) == SubSeq(s, 1, Len(s) - 1)

\* faulty variant: strict comparison, equal precedence no longer pops
pops_top_strict(top, current) == top.precedence > current.precedence

\* the precedence test that pops the operator on top of the stack
pops_top(top, current) == top.precedence >= current.precedence

\* faulty variant: a popped operator is dropped instead of moved to the output
RECURSIVE pop_operators_drop(_, _, _)
pop_operators_drop(out, stack, op) ==
    IF stack # <<>> /\ Last(stack).type = "Operator"
    THEN IF get_operator(Last(stack).op).some /\ get_operator(op).some
         THEN IF pops_top(get_operator(Last(stack).op).val, get_operator(op).val)
              THEN pop_operators_drop(out, Front(stack), op)
              ELSE [out |-> out, stack |-> stack, err |-> NoErr]
         ELSE [out |-> out, stack |-> stack, err |-> Some(Err("Unknown operator", op))]
    ELSE [out |-> out, stack |-> stack, err |-> NoErr]

\* while let Some(Token::Operator(top_op)) = operator_stack.last() { ... }
RECURSIVE pop_operators(_, _, _)
pop_operators(out, stack, op) ==
    IF stack # <<>> /\ Last(stack).type = "Operator"
    THEN IF get_operator(Last(stack).op).some /\ get_operator(op).some
         THEN IF pops_top(get_operator(Last(stack).op).val, get_operator(op).val)
              THEN pop_operators(Append(out, Last(stack)), Front(stack), op)
              ELSE [out |-> out, stack |-> stack, err |-> NoErr]
         ELSE [out |-> out, stack |-> stack, err |-> Some(Err("Unknown operator", op))]
    ELSE [out |-> out, stack |-> stack, err |-> NoErr]

\* faulty variant: the popped LeftParen is pushed to the output before the break
RECURSIVE pop_to_left_paren_keep(_, _)
pop_to_left_paren_keep(out, stack) ==
    IF stack = <<>> THEN [out |-> out, stack |-> stack, err |-> NoErr]
    ELSE IF Last(stack).type = "LeftParen"
         THEN [out |-> Append(out, Last(stack)), stack |-> Front(stack), err |-> NoErr]
         ELSE pop_to_left_paren_keep(Append(out, Last(stack)), Front(stack))

\* faulty variant: running out of stack entries without meeting a LeftParen is an error
RECURSIVE pop_to_left_paren_strict(_, _)
pop_to_left_paren_strict(out, stack) ==
    IF stack = <<>>
    THEN [out |-> out, stack |-> stack, err |-> Some(Err("Mismatched parentheses", <<>>))]
    ELSE IF Last(stack).type = "LeftParen"
         THEN [out |-> out, stack |-> Front(stack), err |-> NoErr]
         ELSE pop_to_left_paren_strict(Append(out, Last(stack)), Front(stack))

\* while let Some(top) = operator_stack.pop() { if top == LeftParen { break } ... }
RECURSIVE pop_to_left_paren(_, _)
pop_to_left_paren(out, stack) ==
    IF stack = <<>> THEN [out |-> out, stack |-> stack, err |-> NoErr]
    ELSE IF Last(stack).type = "LeftParen"
         THEN [out |-> out, stack |-> Front(stack), err |-> NoErr]
         ELSE pop_to_left_paren(Append(out, Last(stack)), Front(stack))

\* faulty variant: an operator token must follow an operand
shunting_yard_token_infix_only(st, token) ==
    CASE token.type \in {"Number", "Variable"} ->
            [out |-> Append(st.out, token), stack |-> st.stack, err |-> NoErr]
      [] token.type = "Operator" ->
            LET r == pop_operators(st.out, st.stack, token.op)
            IN  IF st.out = <<>> /\ get_operator(token.op).some /\ ~get_operator(token.op).val.is_unary
                THEN [out |-> st.out, stack |-> st.stack,
                      err |-> Some(Err("Unexpected operator", token.op))]
                ELSE IF r.err.some THEN r
                ELSE [out |-> r.out, stack |-> Append(r.stack, token), err |-> NoErr]
      [] token.type = "LeftParen" ->
            [out |-> st.out, stack |-> Append(st.stack, token), err |-> NoErr]
      [] token.type = "RightParen" ->
            pop_to_left_paren(st.out, st.stack)

\* one iteration of `for token in tokens`
shunting_yard_token(st, token) ==
    CASE token.type \in {"Number", "Variable"} ->
            [out |-> Append(st.out, token), stack |-> st.stack, err |-> NoErr]
      [] token.type = "Operator" ->
            LET r == pop_operators(st.out, st.stack, token.op)
            IN  IF r.err.some THEN r
                ELSE [out |-> r.out, stack |-> Append(r.stack, token), err |-> NoErr]
      [] token.type = "LeftParen" ->
            [out |-> st.out, stack |-> Append(st.stack, token), err |-> NoErr]
      [] token.type = "RightParen" ->
            pop_to_left_paren(st.out, st.stack)

RECURSIVE shunting_yard_loop(_, _, _)
shunting_yard_loop(st, toks, i) ==
    IF i > Len(toks) \/ st.err.some THEN st
    ELSE shunting_yard_loop(shunting_yard_token(st, toks[i]), toks, i + 1)

\* faulty variant: a LeftParen left on the stack is dropped without an error
RECURSIVE drain_stack_lenient(_, _)
drain_stack_lenient(out, stack) ==
    IF stack = <<>> THEN Ok(out)
    ELSE IF Last(stack).type = "LeftParen" THEN drain_stack_lenient(out, Front(stack))
         ELSE drain_stack_lenient(Append(out, Last(stack)), Front(stack))

\* faulty variant: a LeftParen left on the stack is moved to the output
RECURSIVE drain_stack_output_paren(_, _)
drain_stack_output_paren(out, stack) ==
    IF stack = <<>> THEN Ok(out)
    ELSE drain_stack_output_paren(Append(out, Last(stack)), Front(stack))

\* while let Some(op) = operator_stack.pop() { ... } after the token loop
RECURSIVE drain_stack(_, _)
drain_stack(out, stack) ==
    IF stack = <<>> THEN Ok(out)
    ELSE IF Last(stack).type = "LeftParen" THEN Err("Mismatched parentheses", <<>>)
         ELSE drain_stack(Append(out, Last(stack)), Front(stack))

shunting_yard(toks) ==
    LET st == shunting_yard_loop([out |-> <<>>, stack |-> <<>>, err |-> NoErr], toks, 1)
    IN  IF st.err.some THEN st.err.val ELSE drain_stack(st.out, st.stack)

(***************************************************************************)
(* Evaluator::evaluate_postfix, Evaluator::get_variable                    *)
(* A JSON value is [kind, ...]; the context is a function from names to    *)
(* JSON values (a JSON object).                                            *)
(***************************************************************************)
JNumber(x) == [kind |-> "Number", num |-> x]

JString(s) == [kind |-> "String", str |-> s]

as_f64(j) == IF j.kind = "Number" THEN Some(j.num) ELSE None

\* faulty variant: a missing or non-numeric variable reads as 0.0
get_variable_default(d, var) ==
    IF var \in DOMAIN d /\ as_f64(d[var]).some THEN Ok(as_f64(d[var]).val) ELSE Ok(Num(0))

get_variable(d, var) ==
    IF var \in DOMAIN d /\ as_f64(d[var]).some
    THEN Ok(as_f64(d[var]).val)
    ELSE Err("Invalid or missing variable", var)

\* faulty variant: the first popped value is taken as the left operand
apply_binary_swapped(sym, left, right) == apply(sym, right, Some(left))

\* the operand order handed to a binary operator's apply
apply_binary(sym, left, right) == apply(sym, left, Some(right))

\* faulty variant: an operator token that is not in the registry is skipped
evaluate_postfix_token_skip_unknown(st, token, d) ==
    CASE token.type = "Number" -> [stack |-> Append(st.stack, token.num), err |-> NoErr]
      [] token.type = "Variable" ->
            LET r == get_variable(d, token.name)
            IN  IF r.ok THEN [stack |-> Append(st.stack, r.val), err |-> NoErr]
                ELSE [stack |-> st.stack, err |-> Some(r)]
      [] token.type = "Operator" ->
            LET operator == get_operator(token.op)
            IN  IF ~operator.some
                THEN [stack |-> st.stack, err |-> NoErr]
                ELSE IF operator.val.is_unary
                THEN IF st.stack = <<>>
                     THEN [stack |-> st.stack,
                           err |-> Some(Err("Not enough operands for unary operator", <<>>))]
                     ELSE [stack |-> Append(Front(st.stack), apply(token.op, Last(st.stack), None)),
                           err |-> NoErr]
                ELSE IF Len(st.stack) < 2
                THEN [stack |-> IF st.stack = <<>> THEN <<>> ELSE Front(st.stack),
                      err |-> Some(Err("Not enough operands for binary operator", <<>>))]
                ELSE [stack |-> Append(SubSeq(st.stack, 1, Len(st.stack) - 2),
                                       apply_binary(token.op, st.stack[Len(st.stack) - 1],
                                                    Last(st.stack))),
                      err |-> NoErr]
      [] OTHER -> [stack |-> st.stack,
                   err |-> Some(Err("Unexpected token in postfix expression", <<>>))]

\* faulty variant: a missing operand is read as 0.0 (pop().unwrap_or(0.0))
evaluate_postfix_token_default_operand(st, token, d) ==
    CASE token.type = "Number" -> [stack |-> Append(st.stack, token.num), err |-> NoErr]
      [] token.type = "Variable" ->
            LET r == get_variable(d, token.name)
            IN  IF r.ok THEN [stack |-> Append(st.stack, r.val), err |-> NoErr]
                ELSE [stack |-> st.stack, err |-> Some(r)]
      [] token.type = "Operator" ->
            LET operator == get_operator(token.op)
                padded == IF Len(st.stack) >= 2 THEN st.stack
                          ELSE IF Len(st.stack) = 1 THEN <<Num(0)>> \o st.stack
                          ELSE <<Num(0), Num(0)>>
            IN  IF ~operator.some
                THEN [stack |-> st.stack, err |-> Some(Err("Unknown operator", token.op))]
                ELSE IF operator.val.is_unary
                THEN [stack |-> Append(Front(padded), apply(token.op, Last(padded), None)),
                      err |-> NoErr]
                ELSE [stack |-> Append(SubSeq(padded, 1, Len(padded) - 2),
                                       apply_binary(token.op, padded[Len(padded) - 1],
                                                    Last(padded))),
                      err |-> NoErr]
      [] OTHER -> [stack |-> st.stack,
                   err |-> Some(Err("Unexpected token in postfix expression", <<>>))]

\* one iteration of `for token in postfix`; st is [stack, err]
evaluate_postfix_token(st, token, d) ==
    CASE token.type = "Number" -> [stack |-> Append(st.stack, token.num), err |-> NoErr]
      [] token.type = "Variable" ->
            LET r == get_variable(d, token.name)
            IN  IF r.ok THEN [stack |-> Append(st.stack, r.val), err |-> NoErr]
                ELSE [stack |-> st.stack, err |-> Some(r)]
      [] token.type = "Operator" ->
            LET operator == get_operator(token.op)
            IN  IF ~operator.some
                THEN [stack |-> st.stack, err |-> Some(Err("Unknown operator", token.op))]
                ELSE IF operator.val.is_unary
                THEN IF st.stack = <<>>
                     THEN [stack |-> st.stack,
                           err |-> Some(Err("Not enough operands for unary operator", <<>>))]
                     ELSE [stack |-> Append(Front(st.stack), apply(token.op, Last(st.stack), None)),
                           err |-> NoErr]
                ELSE IF Len(st.stack) < 2
                THEN [stack |-> IF st.stack = <<>> THEN <<>> ELSE Front(st.stack),
                      err |-> Some(Err("Not enough operands for binary operator", <<>>))]
                ELSE [stack |-> Append(SubSeq(st.stack, 1, Len(st.stack) - 2),
                                       apply_binary(token.op, st.stack[Len(st.stack) - 1],
                                                    Last(st.stack))),
                      err |-> NoErr]
      [] OTHER -> [stack |-> st.stack,
                   err |-> Some(Err("Unexpected token in postfix expression", <<>>))]

\* faulty variant: the loop goes on after a failing token and keeps the latest error
RECURSIVE evaluate_postfix_loop_last_error(_, _, _, _)
evaluate_postfix_loop_last_error(st, toks, i, d) ==
    IF i > Len(toks) THEN st
    ELSE LET n == evaluate_postfix_token([stack |-> st.stack, err |-> NoErr], toks[i], d)
         IN  evaluate_postfix_loop_last_error(
                 [stack |-> n.stack, err |-> IF n.err.some THEN n.err ELSE st.err], toks, i + 1, d)

RECURSIVE evaluate_postfix_loop(_, _, _, _)
evaluate_postfix_loop(st, toks, i, d) ==
    IF i > Len(toks) \/ st.err.some THEN st
    ELSE evaluate_postfix_loop(evaluate_postfix_token(st, toks[i], d), toks, i + 1, d)

\* stack.pop().ok_or("Empty expression")
final_pop(stack) == IF stack = <<>> THEN Err("Empty expression", <<>>) ELSE Ok(Last(stack))

evaluate_postfix(toks, d) ==
    LET st == evaluate_postfix_loop([stack |-> <<>>, err |-> NoErr], toks, 1, d)
    IN  IF st.err.some THEN st.err.val ELSE final_pop(st.stack)

\* Evaluator::evaluate as one function
evaluate(e, d) ==
    IF e = <<>> THEN Err("Invalid expression", <<>>)
    ELSE LET p == shunting_yard(tokenize(e))
         IN  IF p.ok THEN evaluate_postfix(p.val, d) ELSE p

\* serde_json::Number::from_f64 is None for a non-finite float
from_f64(x) == IF x.nan THEN None ELSE Some(x)

\* faulty variant: a failure is rendered as the default number
to_value_zero_on_error(r) ==
    IF r.ok THEN JNumber(unwrap_or(from_f64(r.val), Num(0))) ELSE JNumber(Num(0))

\* pub async fn eval: the JSON rendering of a Result
to_value(r) ==
    IF r.ok THEN JNumber(unwrap_or(from_f64(r.val), Num(0)))
    ELSE JString([msg |-> r.err, arg |-> r.arg])

eval(e, d) == to_value(evaluate(e, d))

(***************************************************************************)
(* rule.rs: DecisionRef -> Decision                                        *)
(* The file system is an environment: RuleFiles gives the rows of every    *)
(* readable .json/.csv rule file, TextFiles the text of every readable     *)
(* file.                                                                   *)
(***************************************************************************)
Row1 == [c |-> "1"]

Row2 == [c |-> "2"]

RuleFiles == ("t.csv" :> <<Row1, Row2>>)

TextFiles == ("t.csv" :> "c\n1\n2\n") @@ ("f.js" :> "return 1")

\* RulesReader::read_rules(path).unwrap_or_default()
read_rules_or_default(path) == IF path \in DOMAIN RuleFiles THEN RuleFiles[path] ELSE <<>>

\* std::fs::read_to_string(path).unwrap_or_default()
read_to_string_or_default(path) == IF path \in DOMAIN TextFiles THEN TextFiles[path] ELSE ""

\* impl From<DecisionRef> for Decision
Decision_from(r) ==
    [id |-> r.id,
     kind |-> r.kind,
     rules |-> read_rules_or_default(r.rules),
     expression |-> r.rules,
     function |-> IF r.kind = "function" THEN read_to_string_or_default(r.rules) ELSE "",
     inputs |-> unwrap_or(r.inputs, <<>>),
     outputs |-> unwrap_or(r.outputs, <<>>),
     sources |-> r.sources,
     targets |-> r.targets]

\* DecisionReader::read_flow after the JSON is parsed
read_flow(refs) == [i \in 1..Len(refs) |-> Decision_from(refs[i])]

(***************************************************************************)
(* graph.rs: node builders, NodeFactory, EdgeBuilder, DecisionGraphBuilder *)
(* A call that panics is modelled by [panic |-> TRUE, msg |-> ...].        *)
(***************************************************************************)
Panic(m) == [panic |-> TRUE, msg |-> m]

Built(n) == [panic |-> FALSE, node |-> n]

DecisionTableInputField(f) == [id |-> f, name |-> f, field |-> Some(f)]

DecisionTableOutputField(f) == [id |-> f, name |-> f, field |-> f]

\* the two closures handed to make_fields, selected by the type they create
field_creator(T, f) ==
    IF T = "DecisionTableInputField" THEN DecisionTableInputField(f)
    ELSE DecisionTableOutputField(f)

make_fields(fields, T) == [i \in 1..Len(fields) |-> field_creator(T, fields[i])]

\* faulty variant: the hit policy is Collect
DecisionTableNodeBuilder_build_collect(d) ==
    Built([id |-> d.id,
           name |-> d.id,
           kind |-> "DecisionTableNode",
           content |-> [hit_policy |-> "Collect",
                        rules |-> d.rules,
                        inputs |-> make_fields(d.inputs, "DecisionTableInputField"),
                        outputs |-> make_fields(d.outputs, "DecisionTableOutputField")]])

DecisionTableNodeBuilder_build(d) ==
    Built([id |-> d.id,
           name |-> d.id,
           kind |-> "DecisionTableNode",
           content |-> [hit_policy |-> "First",
                        rules |-> d.rules,
                        inputs |-> make_fields(d.inputs, "DecisionTableInputField"),
                        outputs |-> make_fields(d.outputs, "DecisionTableOutputField")]])

\* inputs.first()
first(s) == IF s = <<>> THEN None ELSE Some(s[1])

\* faulty variant: one named expression per declared input
ExpressionNodeBuilder_build_all_inputs(d) ==
    IF ~first(d.inputs).some
    THEN Panic("Option::unwrap on a None value")
    ELSE Built([id |-> d.id,
                name |-> d.id,
                kind |-> "ExpressionNode",
                content |-> [expressions |->
                                [j \in 1..Len(d.inputs) |->
                                    [id |-> d.inputs[j], key |-> d.inputs[j],
                                     value |-> d.expression]]]])

ExpressionNodeBuilder_build(d) ==
    IF ~first(d.inputs).some
    THEN Panic("Option::unwrap on a None value")
    ELSE LET key == first(d.inputs).val
         IN  Built([id |-> d.id,
                    name |-> d.id,
                    kind |-> "ExpressionNode",
                    content |-> [expressions |->
                                    <<[id |-> key, key |-> key, value |-> d.expression]>>]])

\* faulty variant: the node is identified by the decision kind
FunctionNodeBuilder_build_kind_id(d) ==
    Built([id |-> d.kind,
           name |-> d.kind,
           kind |-> "FunctionNode",
           content |-> [Version1 |-> d.function]])

FunctionNodeBuilder_build(d) ==
    Built([id |-> d.id,
           name |-> d.id,
           kind |-> "FunctionNode",
           content |-> [Version1 |-> d.function]])

\* NodeFactory::new: the registered builder kinds
NodeFactory_new == {"table", "expression", "function"}

create_node(d) ==
    IF d.kind \notin NodeFactory_new THEN Panic("Unsupported decision kind")
    ELSE CASE d.kind = "table" -> DecisionTableNodeBuilder_build(d)
           [] d.kind = "expression" -> ExpressionNodeBuilder_build(d)
           [] d.kind = "function" -> FunctionNodeBuilder_build(d)

DecisionEdge(s, t) == [id |-> "", source_id |-> s, target_id |-> t, source_handle |-> Some("")]

\* faulty variant: the target edges are emitted before the source edges
edges_of_targets_first(d) ==
    [i \in 1..Len(d.targets) |-> DecisionEdge(d.id, d.targets[i])]
    \o [i \in 1..Len(d.sources) |-> DecisionEdge(d.sources[i], d.id)]

\* the edges one decision contributes: sources first, then targets
edges_of(d) ==
    [i \in 1..Len(d.sources) |-> DecisionEdge(d.sources[i], d.id)]
    \o [i \in 1..Len(d.targets) |-> DecisionEdge(d.id, d.targets[i])]

\* faulty variant: an edge is kept only when both endpoints are node ids
RECURSIVE build_edges_checked(_)
build_edges_checked(f) ==
    LET known == {f[i].id : i \in 1..Len(f)} \cup {"request", "response"}
    IN  SelectSeq(IF f = <<>> THEN <<>> ELSE edges_of(Head(f)) \o build_edges_checked(Tail(f)),
                  LAMBDA e : e.source_id \in known /\ e.target_id \in known)

RECURSIVE build_edges(_)
build_edges(f) == IF f = <<>> THEN <<>> ELSE edges_of(Head(f)) \o build_edges(Tail(f))

InputNode == [id |-> "request", name |-> "request", kind |-> "InputNode"]

OutputNode == [id |-> "response", name |-> "response", kind |-> "OutputNode"]

\* nodes.extend(flow.iter().map(create_node)): stops at the first panic
RECURSIVE extend_nodes(_, _)
extend_nodes(nodes, f) ==
    IF f = <<>> THEN [panic |-> FALSE, nodes |-> nodes]
    ELSE LET n == create_node(Head(f))
         IN  IF n.panic THEN n ELSE extend_nodes(Append(nodes, n.node), Tail(f))

\* faulty variant: both sentinels are created before the decision nodes are appended
build_sentinels_first(f) ==
    LET ext == extend_nodes(<<InputNode, OutputNode>>, f)
    IN  IF ext.panic THEN [status |-> "panic", msg |-> ext.msg]
        ELSE [status |-> "ok", nodes |-> ext.nodes, edges |-> build_edges(f)]

\* DecisionGraphBuilder::build
build(f) ==
    LET ext == extend_nodes(<<InputNode>>, f)
    IN  IF ext.panic THEN [status |-> "panic", msg |-> ext.msg]
        ELSE [status |-> "ok", nodes |-> Append(ext.nodes, OutputNode), edges |-> build_edges(f)]

(***************************************************************************)
(* Inputs                                                                  *)
(***************************************************************************)
MaxLen == 5

ShortLen == 3

MaxSpecs == 2

F_m3 == <<"-", "3">>

F_2 == <<"2">>

F_0 == <<"0">>

F_x == <<"$", "x">>

F_y == <<"$", "y">>

F_z == <<"$", "z">>

DIV == <<"/">>

LP == <<"(">>

RP == <<")">>

BinaryOps == {ADD, SUB, MUL, MOD}

LowOps == {ADD, SUB}

HighOps == {MUL, MOD}

NumberFrags == {F_m3, F_2}

FlatAlphabet == NumberFrags \cup {F_0} \cup BinaryOps \cup {ABS}

FullAlphabet == FlatAlphabet \cup {F_x, F_y, F_z, DIV, LP, RP, <<"(", "5">>}

SeqsUpTo(S, n) == UNION {[1..k -> S] : k \in 0..n}

Ctx_empty == <<>>

Ctx_x == (<<"x">> :> JNumber(Num(3)))

Ctx_xy == (<<"x">> :> JNumber(Num(4))) @@ (<<"y">> :> JNumber(Num(2)))

Ctx_str == (<<"x">> :> JString("abc")) @@ (<<"y">> :> JNumber(Num(2)))

Contexts == {Ctx_empty, Ctx_x, Ctx_xy, Ctx_str}

\* operator-only expressions of numbers: the context is never read
FlatExprs == SeqsUpTo(FlatAlphabet, MaxLen)

\* every short fragment sequence, variables and parentheses included
ShortExprs == SeqsUpTo(FullAlphabet, ShortLen)

ParenOperands == NumberFrags \cup {F_0, F_x}

\* one parenthesised binary group as the left or the right operand
ParenExprs ==
    {<<LP, a, o1, b, RP, o2, c>> : a \in ParenOperands, b \in ParenOperands,
                                   c \in ParenOperands, o1 \in BinaryOps, o2 \in BinaryOps}
    \cup
    {<<a, o2, LP, b, o1, c, RP>> : a \in ParenOperands, b \in ParenOperands,
                                   c \in ParenOperands, o1 \in BinaryOps, o2 \in BinaryOps}

\* the expressions of flow/tests/evaluator_tests.rs, enabled or commented out
Test_complex1 ==
    <<<<"5">>, ADD, <<"3">>, MUL, <<"2">>, SUB, ABS, <<"-", "4">>, MOD, <<"3">>>>

Test_paren_glued == <<<<"(", "5">>, ADD, <<"3", ")">>, MUL, <<"2">>>>

Test_paren_spaced == <<LP, <<"5">>, ADD, <<"3">>, RP, MUL, <<"2">>>>

Test_abs3 == <<ABS, ABS, ABS, <<"-", "5">>>>

\* "5 + 3 )": a closing parenthesis that nothing opened
Test_stray_rparen == <<<<"5">>, ADD, <<"3">>, RP>>

\* "5 / 3 + 2": an unregistered operator followed by a registered one
Test_unknown_then_known == <<<<"5">>, DIV, <<"3">>, ADD, <<"2">>>>

\* "( $z + 1": an unclosed parenthesis and a variable
Test_unclosed_var == <<LP, F_z, ADD, <<"1">>>>

\* "(5 + 3" of the specification, with the parenthesis as a fragment of its own
Test_unclosed == <<LP, <<"5">>, ADD, <<"3">>>>

TestExprs ==
    {<<<<"5">>, ADD, <<"3">>>>, <<<<"1", "0">>, SUB, <<"4">>>>, <<<<"3">>, MOD, <<"2">>>>,
     <<<<"5">>, ADD, <<"3">>, MUL, <<"2">>>>, Test_paren_glued, Test_paren_spaced,
     <<<<"1", "0">>, SUB, <<"4">>, ADD, <<"2">>>>,
     <<F_x, ADD, <<"5">>>>, <<F_x, MUL, F_y>>,
     <<ABS, <<"-", "5">>>>, <<ABS, <<"5">>>>, <<<<"5">>, ADD, ABS, <<"-", "3">>>>,
     Test_complex1,
     <<<<"5">>, ADD>>, <<<<"5">>, <<"5">>>>, <<DIV, <<"5">>>>, <<F_x>>, <<>>, <<F_0>>,
     Test_abs3, Test_unclosed, Test_stray_rparen,
     Test_unknown_then_known, Test_unclosed_var}

Inputs ==
    (FlatExprs \X {Ctx_empty}) \cup ((ShortExprs \cup ParenExprs \cup TestExprs) \X Contexts)

\* results of the external expression engine seen in flow/tests/lib_tests.rs:
\* a number ("x + y"), a string ("person.name"), a failure
ZenOutcomes == {Ok(JNumber(Num(15))), Ok(JString("Alice")), Err("zen_expression error", <<>>)}

\* concurrent callers of eval, and how often a caller repeats its call
MaxTasks == 2

MaxRuns == 1

Tasks == 1..MaxTasks

ConcInputs ==
    { <<<<F_2, ADD, F_m3>>, Ctx_empty>>,
      <<<<F_x, MUL, F_y>>, Ctx_xy>>,
      <<<<F_x, MUL, F_y>>, Ctx_x>>,
      <<Test_unclosed, Ctx_empty>>,
      <<<<>>, Ctx_empty>> }

\* token sequences for the iteration-level run: every short one, and two long ones
StepAlphabet == {F_2, F_x, F_z, ADD, MUL, DIV, LP, RP}

StepInputs == SeqsUpTo(StepAlphabet, ShortLen) \cup {Test_paren_spaced, Test_complex1}

Ids == {"a", "b", "request"}

Kinds == {"table", "expression", "function", "script"}

RulePaths == {"t.csv", "f.js"}

FieldLists == {<<None, None>>, <<Some(<<>>), Some(<<"o">>)>>, <<Some(<<"x", "y">>), Some(<<"o">>)>>}

LinkLists == {<<<<>>, <<>>>>, <<<<"a">>, <<"b", "zz">>>>}

DecisionRefs ==
    {[id |-> i, kind |-> k, rules |-> r, inputs |-> io[1], outputs |-> io[2],
      sources |-> l[1], targets |-> l[2]] :
        i \in Ids, k \in Kinds, r \in RulePaths, io \in FieldLists, l \in LinkLists}

Flows == SeqsUpTo(DecisionRefs, MaxSpecs)

(***************************************************************************)
(* State machine: one call of eval (stage by stage) or one read_flow +     *)
(* build.                                                                  *)
(***************************************************************************)
Pending == [ok |-> FALSE, err |-> "(pending)", arg |-> <<>>]

JNull == [kind |-> "Null"]

NoGraph == [status |-> "none"]

\* one call of eval in flight: its arguments, its local variables, its position;
\* runs counts the repetitions of the call, first is the value the first run returned
TaskIdle ==
    [pc |-> "idle", expr |-> <<>>, data |-> Ctx_empty, tokens |-> <<>>, postfix |-> <<>>,
     result |-> Pending, value |-> JNull, runs |-> 0, first |-> JNull]

\* one run of shunting_yard followed by evaluate_postfix, loop iteration by loop
\* iteration: i is the position of `for token in tokens`, the operator stack holds
\* token positions, pushed and popped count the stack operations on each token,
\* k is the position of `for token in postfix`
RunIdle ==
    [phase |-> "idle", toks |-> <<>>, data |-> Ctx_empty, i |-> 1, out |-> <<>>, stack |-> <<>>,
     pushed |-> <<>>, popped |-> <<>>, k |-> 1, vstack |-> <<>>, result |-> Pending]

Init ==
    /\ pc = "idle"
    /\ expr = <<>>
    /\ data = Ctx_empty
    /\ tokens = <<>>
    /\ postfix = <<>>
    /\ result = Pending
    /\ value = JNull
    /\ flow = <<>>
    /\ graph = NoGraph
    /\ tasks = [t \in Tasks |-> TaskIdle]
    /\ run = RunIdle

\* faulty variant: the emptiness check is missing
Evaluate_unchecked(e, d) ==
    /\ pc = "idle"
    /\ expr' = e
    /\ data' = d
    /\ pc' = "tokenize"
    /\ UNCHANGED <<tokens, postfix, result, value, flow, graph, tasks, run>>

\* eval is called; Evaluator::evaluate checks expr.trim().is_empty()
Evaluate(e, d) ==
    /\ pc = "idle"
    /\ expr' = e
    /\ data' = d
    /\ IF e = <<>>
       THEN /\ result' = Err("Invalid expression", <<>>)
            /\ pc' = "evaluated"
       ELSE /\ result' = result
            /\ pc' = "tokenize"
    /\ UNCHANGED <<tokens, postfix, value, flow, graph, tasks, run>>

Tokenize ==
    /\ pc = "tokenize"
    /\ tokens' = tokenize(expr)
    /\ pc' = "shunting_yard"
    /\ UNCHANGED <<expr, data, postfix, result, value, flow, graph, tasks, run>>

ShuntingYard ==
    /\ pc = "shunting_yard"
    /\ LET r == shunting_yard(tokens)
       IN  IF r.ok
           THEN /\ postfix' = r.val
                /\ result' = result
                /\ pc' = "evaluate_postfix"
           ELSE /\ postfix' = postfix
                /\ result' = r
                /\ pc' = "evaluated"
    /\ UNCHANGED <<expr, data, tokens, value, flow, graph, tasks, run>>

EvaluatePostfix ==
    /\ pc = "evaluate_postfix"
    /\ result' = evaluate_postfix(postfix, data)
    /\ pc' = "evaluated"
    /\ UNCHANGED <<expr, data, tokens, postfix, value, flow, graph, tasks, run>>

\* eval renders the Result as a JSON value
EvalReturn ==
    /\ pc = "evaluated"
    /\ value' = to_value(result)
    /\ pc' = "done"
    /\ UNCHANGED <<expr, data, tokens, postfix, result, flow, graph, tasks, run>>

\* lib.rs eval: the outcome of zen_expression::evaluate_expression, an external
\* engine, is any of ZenOutcomes; a success is returned as it is, a failure as a string
lib_to_value(r) == IF r.ok THEN r.val ELSE JString([msg |-> r.err, arg |-> r.arg])

LibEval(out) ==
    /\ pc = "idle"
    /\ result' = out
    /\ value' = lib_to_value(out)
    /\ pc' = "lib_done"
    /\ UNCHANGED <<expr, data, tokens, postfix, flow, graph, tasks, run>>

ReadFlow(refs) ==
    /\ pc = "idle"
    /\ flow' = read_flow(refs)
    /\ pc' = "flow_read"
    /\ UNCHANGED <<expr, data, tokens, postfix, result, value, graph, tasks, run>>

Build ==
    /\ pc = "flow_read"
    /\ graph' = build(flow)
    /\ pc' = "built"
    /\ UNCHANGED <<expr, data, tokens, postfix, result, value, flow, tasks, run>>

Next ==
    \/ pc = "idle" /\ \E in \in Inputs : Evaluate(in[1], in[2])
    \/ Tokenize
    \/ ShuntingYard
    \/ EvaluatePostfix
    \/ EvalReturn
    \/ pc = "idle" /\ \E out \in ZenOutcomes : LibEval(out)
    \/ pc = "idle" /\ \E n \in 0..MaxSpecs : \E refs \in [1..n -> DecisionRefs] : ReadFlow(refs)
    \/ Build

\* Interleaved calls of eval. Each call owns its arguments and the locals of
\* evaluate (tokens, postfix, the operator and value stacks inside shunting_yard and
\* evaluate_postfix); the registry is only read (&self).
enter(k, e, d) ==
    IF e = <<>>
    THEN [k EXCEPT !.expr = e, !.data = d, !.tokens = <<>>, !.postfix = <<>>, !.value = JNull,
                   !.result = Err("Invalid expression", <<>>), !.pc = "evaluated"]
    ELSE [k EXCEPT !.expr = e, !.data = d, !.tokens = <<>>, !.postfix = <<>>, !.value = JNull,
                   !.result = Pending, !.pc = "tokenize"]

Unshared == UNCHANGED <<pc, expr, data, tokens, postfix, result, value, flow, graph, run>>

ConcEvaluate(t, e, d) ==
    /\ tasks[t].pc = "idle"
    /\ tasks' = [tasks EXCEPT ![t] = enter(@, e, d)]
    /\ Unshared

\* faulty variant: the token vector is one buffer shared by all calls
ConcTokenize_shared(t) ==
    /\ tasks[t].pc = "tokenize"
    /\ tasks' = [u \in Tasks |->
                    IF u = t
                    THEN [tasks[u] EXCEPT !.tokens = tokenize(tasks[t].expr), !.pc = "shunting_yard"]
                    ELSE [tasks[u] EXCEPT !.tokens = tokenize(tasks[t].expr)]]
    /\ Unshared

ConcTokenize(t) ==
    /\ tasks[t].pc = "tokenize"
    /\ tasks' = [tasks EXCEPT ![t] = [@ EXCEPT !.tokens = tokenize(tasks[t].expr), !.pc = "shunting_yard"]]
    /\ Unshared

ConcShuntingYard(t) ==
    /\ tasks[t].pc = "shunting_yard"
    /\ LET r == shunting_yard(tasks[t].tokens)
       IN  tasks' = [tasks EXCEPT ![t] =
                        IF r.ok THEN [@ EXCEPT !.postfix = r.val, !.pc = "evaluate_postfix"]
                        ELSE [@ EXCEPT !.result = r, !.pc = "evaluated"]]
    /\ Unshared

ConcEvaluatePostfix(t) ==
    /\ tasks[t].pc = "evaluate_postfix"
    /\ tasks' = [tasks EXCEPT ![t] =
                    [@ EXCEPT !.result = evaluate_postfix(tasks[t].postfix, tasks[t].data), !.pc = "evaluated"]]
    /\ Unshared

ConcEvalReturn(t) ==
    /\ tasks[t].pc = "evaluated"
    /\ tasks' = [tasks EXCEPT ![t] = [@ EXCEPT !.value = to_value(tasks[t].result), !.pc = "returned"]]
    /\ Unshared

\* the caller calls eval again with the same expression and the same context
ConcRepeat(t) ==
    /\ tasks[t].pc = "returned"
    /\ tasks[t].runs < MaxRuns
    /\ tasks' = [tasks EXCEPT ![t] =
                    enter([@ EXCEPT !.runs = @ + 1,
                                    !.first = IF tasks[t].runs = 0 THEN tasks[t].value ELSE @],
                          tasks[t].expr, tasks[t].data)]
    /\ Unshared

NextConc ==
    \/ \E t \in Tasks : \E in \in ConcInputs : ConcEvaluate(t, in[1], in[2])
    \/ \E t \in Tasks : ConcTokenize(t)
    \/ \E t \in Tasks : ConcShuntingYard(t)
    \/ \E t \in Tasks : ConcEvaluatePostfix(t)
    \/ \E t \in Tasks : ConcEvalReturn(t)
    \/ \E t \in Tasks : ConcRepeat(t)

SpecConc == Init /\ [][NextConc]_vars

\* shunting_yard and evaluate_postfix, one loop iteration per step
Others == UNCHANGED <<pc, expr, data, tokens, postfix, result, value, flow, graph, tasks>>

Cur == run.toks[run.i]

Top == run.toks[Last(run.stack)]

InTokenLoop == run.phase = "parse" /\ run.i <= Len(run.toks)

InDrainLoop == run.phase = "parse" /\ run.i > Len(run.toks)

\* the run at the entry of shunting_yard, for the tokens of e and the context d
RunStart(e, d) ==
    [RunIdle EXCEPT !.phase = "parse", !.toks = tokenize(e), !.data = d,
                    !.pushed = [j \in 1..Len(e) |-> 0],
                    !.popped = [j \in 1..Len(e) |-> 0]]

\* the parser is entered with any of the token sequences
InitSteps ==
    /\ pc = "idle"
    /\ expr = <<>>
    /\ data = Ctx_empty
    /\ tokens = <<>>
    /\ postfix = <<>>
    /\ result = Pending
    /\ value = JNull
    /\ flow = <<>>
    /\ graph = NoGraph
    /\ tasks = [t \in Tasks |-> TaskIdle]
    /\ run \in {RunStart(e, Ctx_x) : e \in StepInputs}

\* Token::Number(_) | Token::Variable(_) => output_queue.push(token)
ParseOperand ==
    /\ InTokenLoop
    /\ Cur.type \in {"Number", "Variable"}
    /\ run' = [run EXCEPT !.out = Append(@, Cur), !.i = @ + 1]
    /\ Others

\* an iteration of the `while let` of the Operator arm that pops
PopHigherOperator ==
    /\ InTokenLoop
    /\ Cur.type = "Operator"
    /\ run.stack # <<>>
    /\ Top.type = "Operator"
    /\ get_operator(Top.op).some /\ get_operator(Cur.op).some
    /\ pops_top(get_operator(Top.op).val, get_operator(Cur.op).val)
    /\ run' = [run EXCEPT !.out = Append(@, Top), !.stack = Front(@),
                          !.popped[Last(run.stack)] = @ + 1]
    /\ Others

\* the `while let` ends (no operator on top, or the break) and the operator is pushed
PushOperator ==
    /\ InTokenLoop
    /\ Cur.type = "Operator"
    /\ IF run.stack = <<>> THEN TRUE
       ELSE IF Top.type # "Operator" THEN TRUE
       ELSE /\ get_operator(Top.op).some /\ get_operator(Cur.op).some
            /\ ~pops_top(get_operator(Top.op).val, get_operator(Cur.op).val)
    /\ run' = [run EXCEPT !.stack = Append(@, run.i), !.pushed[run.i] = @ + 1, !.i = @ + 1]
    /\ Others

\* return Err(format!("Unknown operator: {}", op))
FailUnknownOperator ==
    /\ InTokenLoop
    /\ Cur.type = "Operator"
    /\ run.stack # <<>>
    /\ Top.type = "Operator"
    /\ ~(get_operator(Top.op).some /\ get_operator(Cur.op).some)
    /\ run' = [run EXCEPT !.phase = "returned", !.result = Err("Unknown operator", Cur.op)]
    /\ Others

\* Token::LeftParen => operator_stack.push(token)
PushLeftParen ==
    /\ InTokenLoop
    /\ Cur.type = "LeftParen"
    /\ run' = [run EXCEPT !.stack = Append(@, run.i), !.pushed[run.i] = @ + 1, !.i = @ + 1]
    /\ Others

\* an iteration of the `while let` of the RightParen arm that moves top to the output
RightParenPop ==
    /\ InTokenLoop
    /\ Cur.type = "RightParen"
    /\ run.stack # <<>>
    /\ Top.type # "LeftParen"
    /\ run' = [run EXCEPT !.out = Append(@, Top), !.stack = Front(@),
                          !.popped[Last(run.stack)] = @ + 1]
    /\ Others

\* the popped top is the LeftParen: break
RightParenBreak ==
    /\ InTokenLoop
    /\ Cur.type = "RightParen"
    /\ run.stack # <<>>
    /\ Top.type = "LeftParen"
    /\ run' = [run EXCEPT !.stack = Front(@), !.popped[Last(run.stack)] = @ + 1, !.i = @ + 1]
    /\ Others

\* faulty variant: with an empty stack the RightParen arm waits for a LeftParen
RightParenExit_wait ==
    /\ InTokenLoop
    /\ Cur.type = "RightParen"
    /\ run.stack = <<>>
    /\ run.stack # <<>>
    /\ run' = [run EXCEPT !.i = @ + 1]
    /\ Others

\* operator_stack.pop() is None: the `while let` of the RightParen arm ends
RightParenExit ==
    /\ InTokenLoop
    /\ Cur.type = "RightParen"
    /\ run.stack = <<>>
    /\ run' = [run EXCEPT !.i = @ + 1]
    /\ Others

\* an iteration of the final `while let` that moves top to the output
DrainPop ==
    /\ InDrainLoop
    /\ run.stack # <<>>
    /\ Top.type # "LeftParen"
    /\ run' = [run EXCEPT !.out = Append(@, Top), !.stack = Front(@),
                          !.popped[Last(run.stack)] = @ + 1]
    /\ Others

\* return Err("Mismatched parentheses")
DrainMismatch ==
    /\ InDrainLoop
    /\ run.stack # <<>>
    /\ Top.type = "LeftParen"
    /\ run' = [run EXCEPT !.stack = Front(@), !.popped[Last(run.stack)] = @ + 1,
                          !.phase = "returned",
                          !.result = Err("Mismatched parentheses", <<>>)]
    /\ Others

\* Ok(output_queue), handed to evaluate_postfix
DrainDone ==
    /\ InDrainLoop
    /\ run.stack = <<>>
    /\ run' = [run EXCEPT !.phase = "eval", !.k = 1, !.vstack = <<>>]
    /\ Others

\* one iteration of `for token in postfix`
EvalToken ==
    /\ run.phase = "eval"
    /\ run.k <= Len(run.out)
    /\ LET n == evaluate_postfix_token([stack |-> run.vstack, err |-> NoErr], run.out[run.k],
                                       run.data)
       IN  run' = IF n.err.some
                  THEN [run EXCEPT !.phase = "returned", !.result = n.err.val]
                  ELSE [run EXCEPT !.vstack = n.stack, !.k = @ + 1]
    /\ Others

\* stack.pop().ok_or("Empty expression")
EvalFinish ==
    /\ run.phase = "eval"
    /\ run.k > Len(run.out)
    /\ run' = [run EXCEPT !.phase = "returned", !.result = final_pop(run.vstack)]
    /\ Others

NextSteps ==
    \/ ParseOperand
    \/ PopHigherOperator
    \/ PushOperator
    \/ FailUnknownOperator
    \/ PushLeftParen
    \/ RightParenPop
    \/ RightParenBreak
    \/ RightParenExit
    \/ DrainPop
    \/ DrainMismatch
    \/ DrainDone
    \/ EvalToken
    \/ EvalFinish

\* the running call keeps executing
SpecSteps == InitSteps /\ [][NextSteps]_vars /\ WF_vars(NextSteps)

Spec == Init /\ [][Next]_vars

(***************************************************************************)
(* Properties                                                              *)
(***************************************************************************)
Evaluated == pc \in {"evaluated", "done"}

\* the arithmetic the operator symbols stand for
Arith(sym, x, y) ==
    CASE sym = ADD -> f64_add(x, y)
      [] sym = SUB -> f64_sub(x, y)
      [] sym = MUL -> f64_mul(x, y)
      [] sym = MOD -> f64_rem(x, y)

IsLiteral(f) == parse_f64(f).some

IsBoundVariable(f, d) ==
    /\ ~IsLiteral(f)
    /\ Len(f) > 1
    /\ f[1] = "$"
    /\ Tail(f) \in DOMAIN d
    /\ d[Tail(f)].kind = "Number"

IsOperand(f, d) == IsLiteral(f) \/ IsBoundVariable(f, d)

\* the value of a numeric literal, or of a variable bound to a number
Val(f, d) == IF IsLiteral(f) THEN parse_f64(f).val ELSE d[Tail(f)].num

\* C1: in "a op1 b op2 c" with literals a, b, c, one operator of {+,-} and one of
\* {*,%}, the operator of {*,%} is applied first, on whichever side it stands.
C1_HigherPrecedenceFirst ==
    (Evaluated /\ Len(expr) = 5 /\ IsLiteral(expr[1]) /\ IsLiteral(expr[3]) /\ IsLiteral(expr[5]))
    => LET a == Val(expr[1], data)
           b == Val(expr[3], data)
           c == Val(expr[5], data)
       IN  /\ (expr[2] \in LowOps /\ expr[4] \in HighOps)
                => result = Ok(Arith(expr[2], a, Arith(expr[4], b, c)))
           /\ (expr[2] \in HighOps /\ expr[4] \in LowOps)
                => result = Ok(Arith(expr[4], Arith(expr[2], a, b), c))

C1_Witness ==
    /\ Evaluated
    /\ expr = <<<<"5">>, ADD, <<"3">>, MUL, <<"2">>>>
    /\ result = Ok(Num(11))

\* C2: in "a op1 b op2 c" with literals a, b, c and two operators of equal
\* precedence, the result is (a op1 b) op2 c.
C2_LeftAssociative ==
    (/\ Evaluated /\ Len(expr) = 5
     /\ IsLiteral(expr[1]) /\ IsLiteral(expr[3]) /\ IsLiteral(expr[5])
     /\ \/ (expr[2] \in LowOps /\ expr[4] \in LowOps)
        \/ (expr[2] \in HighOps /\ expr[4] \in HighOps))
    => result = Ok(Arith(expr[4], Arith(expr[2], Val(expr[1], data), Val(expr[3], data)),
                         Val(expr[5], data)))

C2_Witness ==
    /\ Evaluated
    /\ expr = <<<<"1", "0">>, SUB, <<"4">>, ADD, <<"2">>>>
    /\ result = Ok(Num(8))

\* C3: "x op y", x and y each a numeric literal or a variable bound to a number,
\* op a registered binary operator, evaluates to val(x) op val(y), x on the left.
C3_BinaryOperandOrder ==
    (/\ Evaluated /\ Len(expr) = 3
     /\ IsOperand(expr[1], data) /\ expr[2] \in BinaryOps /\ IsOperand(expr[3], data))
    => result = Ok(Arith(expr[2], Val(expr[1], data), Val(expr[3], data)))

C3_Witness ==
    /\ Evaluated
    /\ expr = <<F_x, SUB, F_y>>
    /\ data = Ctx_xy
    /\ result = Ok(Num(2))

FinalStack == evaluate_postfix_loop([stack |-> <<>>, err |-> NoErr], postfix, 1, data)

PostfixConsumed ==
    /\ Evaluated
    /\ expr # <<>>
    /\ shunting_yard(tokens).ok
    /\ ~FinalStack.err.some

\* C5: once every postfix token is consumed, the evaluation succeeds only if exactly
\* one value is left on the value stack; no value is "Empty expression", more than
\* one value is an error.
C5_ExactlyOneValueLeft ==
    PostfixConsumed
    => /\ result.ok <=> Len(FinalStack.stack) = 1
       /\ Len(FinalStack.stack) = 0 => result = Err("Empty expression", <<>>)

\* C6: k >= 1 `abs` tokens followed by a numeric literal n evaluate to |n|.
C6_AbsChain ==
    (/\ Evaluated /\ Len(expr) >= 2
     /\ \A i \in 1..(Len(expr) - 1) : expr[i] = ABS
     /\ IsLiteral(expr[Len(expr)]))
    => result = Ok(f64_abs(Val(expr[Len(expr)], data)))

\* C7: a single prefix `abs` applies to the operand that follows it and binds tighter
\* than every binary operator: "abs a" = |a|, "a op abs b" = a op |b|,
\* "abs a op b" = |a| op b, and the test expressions evaluate to 5, 8 and 10.
C7_SingleAbsBindsTightest ==
    Evaluated
    => /\ (Len(expr) = 2 /\ expr[1] = ABS /\ IsLiteral(expr[2]))
            => result = Ok(f64_abs(Val(expr[2], data)))
       /\ (/\ Len(expr) = 4 /\ IsLiteral(expr[1]) /\ expr[2] \in BinaryOps
           /\ expr[3] = ABS /\ IsLiteral(expr[4]))
            => result = Ok(Arith(expr[2], Val(expr[1], data), f64_abs(Val(expr[4], data))))
       /\ (/\ Len(expr) = 4 /\ expr[1] = ABS /\ IsLiteral(expr[2])
           /\ expr[3] \in BinaryOps /\ IsLiteral(expr[4]))
            => result = Ok(Arith(expr[3], f64_abs(Val(expr[2], data)), Val(expr[4], data)))
       /\ expr = <<ABS, <<"-", "5">>>> => result = Ok(Num(5))
       /\ expr = <<<<"5">>, ADD, ABS, <<"-", "3">>>> => result = Ok(Num(8))
       /\ expr = Test_complex1 => result = Ok(Num(10))

C7_Witness ==
    /\ Evaluated
    /\ expr = <<F_2, MUL, ABS, F_m3>>
    /\ result = Ok(Num(6))

HasUnknownKind == \E i \in 1..Len(flow) : flow[i].kind \notin NodeFactory_new

HasExpressionWithoutInputs ==
    \E i \in 1..Len(flow) : flow[i].kind = "expression" /\ flow[i].inputs = <<>>

\* C8: building a spec list in which some kind has no registered builder returns a
\* build error to the caller; it never panics.
C8_UnknownKindIsBuildError ==
    (pc = "built" /\ HasUnknownKind) => graph.status = "error"

\* C9: building a spec list (all kinds registered) in which an expression-kind spec
\* has an empty inputs list returns a build error to the caller; it never panics.
C9_EmptyInputsIsBuildError ==
    (pc = "built" /\ ~HasUnknownKind /\ HasExpressionWithoutInputs) => graph.status = "error"

NodeKindOf(k) ==
    CASE k = "table" -> "DecisionTableNode"
      [] k = "expression" -> "ExpressionNode"
      [] k = "function" -> "FunctionNode"

\* C10: a list of N specs that compiles gives N+2 nodes: the only InputNode
\* ("request") first, the only OutputNode ("response") last, and the node of the
\* i-th spec at index i in between; no spec gives exactly the two sentinels and no edge.
C10_GraphShape ==
    (pc = "built" /\ graph.status = "ok")
    => LET N == Len(flow)
       IN  /\ Len(graph.nodes) = N + 2
           /\ graph.nodes[1].kind = "InputNode" /\ graph.nodes[1].id = "request"
           /\ graph.nodes[N + 2].kind = "OutputNode" /\ graph.nodes[N + 2].id = "response"
           /\ \A j \in 1..(N + 2) :
                /\ graph.nodes[j].kind = "InputNode" => j = 1
                /\ graph.nodes[j].kind = "OutputNode" => j = N + 2
           /\ \A i \in 1..N :
                /\ graph.nodes[i + 1].id = flow[i].id
                /\ graph.nodes[i + 1].kind = NodeKindOf(flow[i].kind)
                /\ graph.nodes[i + 1] = create_node(flow[i]).node
           /\ N = 0 => (graph.nodes = <<InputNode, OutputNode>> /\ graph.edges = <<>>)

C10_Witness ==
    /\ pc = "built"
    /\ graph.status = "ok"
    /\ Len(flow) = 2
    /\ flow[1].id = "b" /\ flow[1].kind = "function"
    /\ flow[2].id = "a" /\ flow[2].kind = "table"
    /\ Len(graph.nodes) = 4

Compiled == pc = "built" /\ graph.status = "ok"

LinkCount(d) == Len(d.sources) + Len(d.targets)

\* the number of edges the first n specs of f declare
RECURSIVE EdgeOffset(_, _)
EdgeOffset(f, n) == IF n = 0 THEN 0 ELSE EdgeOffset(f, n - 1) + LinkCount(f[n])

\* C11: the edge list is, spec by spec in input order, one edge (s, spec.id) per
\* source s followed by one edge (spec.id, t) per target t; its length is the sum of
\* |sources| + |targets| and nothing is de-duplicated.
C11_EdgeList ==
    Compiled
    => /\ Len(graph.edges) = EdgeOffset(flow, Len(flow))
       /\ \A i \in 1..Len(flow) :
            LET d == flow[i]
                off == EdgeOffset(flow, i - 1)
            IN  /\ \A k \in 1..Len(d.sources) :
                     /\ graph.edges[off + k].source_id = d.sources[k]
                     /\ graph.edges[off + k].target_id = d.id
                /\ \A k \in 1..Len(d.targets) :
                     /\ graph.edges[off + Len(d.sources) + k].source_id = d.id
                     /\ graph.edges[off + Len(d.sources) + k].target_id = d.targets[k]

\* the link a -> b is declared as a target of spec a and as a source of spec b
C11_Witness ==
    /\ Compiled
    /\ Len(flow) = 2
    /\ flow[1].id = "a" /\ flow[1].targets = <<"b", "zz">>
    /\ flow[2].id = "b" /\ flow[2].sources = <<"a">>
    /\ Len(graph.edges) = 6
    /\ graph.edges[2] = DecisionEdge("a", "b")
    /\ graph.edges[4] = DecisionEdge("a", "b")

NodeIdIsSpecId ==
    \A i \in 1..Len(flow) :
        graph.nodes[i + 1].id = flow[i].id /\ graph.nodes[i + 1].name = flow[i].id

\* no two nodes of the graph, sentinels included, carry the same id
NodeIdsUnique ==
    \A i \in 1..Len(graph.nodes) : \A j \in 1..Len(graph.nodes) :
        graph.nodes[i].id = graph.nodes[j].id => i = j

SpecIdsDistinct ==
    /\ \A i \in 1..Len(flow) : \A j \in 1..Len(flow) : flow[i].id = flow[j].id => i = j
    /\ \A i \in 1..Len(flow) : flow[i].id \notin {"request", "response"}

\* C12 as claimed: in every compiled graph each non-sentinel node's id and name are
\* the id of its spec, and no other node of the graph carries the same id.
C12_NodeIdsUniqueAlways == Compiled => (NodeIdIsSpecId /\ NodeIdsUnique)

\* C12 amended: each non-sentinel node's id and name are the id of its spec; the node
\* ids are unique exactly when the spec ids are pairwise distinct and none of them is
\* "request" or "response".
C12_NodeIdsFollowSpecIds == Compiled => (NodeIdIsSpecId /\ (NodeIdsUnique <=> SpecIdsDistinct))

C12_Witness ==
    /\ Compiled
    /\ Len(flow) = 2
    /\ flow[1].id = "a" /\ flow[2].id = "b"
    /\ graph.nodes[2].id = "a" /\ graph.nodes[3].id = "b"
    /\ NodeIdsUnique

\* every declared link of every spec is an edge of the graph
AllLinksEmitted ==
    \A i \in 1..Len(flow) :
        /\ \A k \in 1..Len(flow[i].sources) :
             \E e \in 1..Len(graph.edges) :
                 graph.edges[e] = DecisionEdge(flow[i].sources[k], flow[i].id)
        /\ \A k \in 1..Len(flow[i].targets) :
             \E e \in 1..Len(graph.edges) :
                 graph.edges[e] = DecisionEdge(flow[i].id, flow[i].targets[k])

NodeIds == {graph.nodes[i].id : i \in 1..Len(graph.nodes)}

HasDanglingEdge ==
    \E e \in 1..Len(graph.edges) :
        graph.edges[e].source_id \notin NodeIds \/ graph.edges[e].target_id \notin NodeIds

\* C19: whether build succeeds does not depend on the declared links (it succeeds
\* whenever every kind is registered and every expression spec has an input), and
\* every declared link is emitted as an edge, dangling endpoints included.
C19_NoExistenceCheck ==
    /\ (pc = "built" /\ ~HasUnknownKind /\ ~HasExpressionWithoutInputs) => graph.status = "ok"
    /\ Compiled => AllLinksEmitted

\* a compiled graph with an edge to "zz", which is the id of no node
C19_Witness ==
    /\ Compiled
    /\ HasDanglingEdge
    /\ \E e \in 1..Len(graph.edges) : graph.edges[e] = DecisionEdge("a", "zz")

IsVariableFrag(f) == ~IsLiteral(f) /\ Len(f) > 0 /\ f[1] = "$"

\* a `$name` fragment whose name is absent from the context or bound to a non-number
IsUnboundFrag(f, d) == IsVariableFrag(f) /\ ~IsBoundVariable(f, d)

HasUnboundVariable == \E i \in 1..Len(expr) : IsUnboundFrag(expr[i], data)

IsUnboundToken(t) == t.type = "Variable" /\ ~get_variable(data, t.name).ok

\* the postfix tokens before position k are evaluated without an error
PrefixSucceeds(k) ==
    ~evaluate_postfix_loop([stack |-> <<>>, err |-> NoErr], SubSeq(postfix, 1, k - 1), 1, data).err.some

\* C13 as claimed: an expression containing a variable that is absent from the
\* context or bound to a non-number returns "Invalid or missing variable: name".
C13_AlwaysVariableError ==
    (Evaluated /\ HasUnboundVariable)
    => \E i \in 1..Len(expr) :
          /\ IsUnboundFrag(expr[i], data)
          /\ result = Err("Invalid or missing variable", Tail(expr[i]))

\* C13 amended: such an expression returns an error and never a number; the error is
\* "Invalid or missing variable: name" for the first such variable in postfix order
\* unless the parser fails or an operator token before that variable fails first.
C13_MissingVariableFails ==
    (Evaluated /\ HasUnboundVariable)
    => /\ ~result.ok
       /\ result.err = "Invalid or missing variable"
            => \E i \in 1..Len(expr) :
                  IsUnboundFrag(expr[i], data) /\ result.arg = Tail(expr[i])
       /\ shunting_yard(tokens).ok
            => \E k \in 1..Len(postfix) :
                  /\ IsUnboundToken(postfix[k])
                  /\ \A j \in 1..(k - 1) : ~IsUnboundToken(postfix[j])
                  /\ PrefixSucceeds(k)
                       => result = Err("Invalid or missing variable", postfix[k].name)
       /\ (/\ Len(expr) = 3 /\ expr[2] \in BinaryOps
           /\ IsLiteral(expr[1]) \/ IsVariableFrag(expr[1])
           /\ IsLiteral(expr[3]) \/ IsVariableFrag(expr[3]))
            => result = Err("Invalid or missing variable",
                            IF IsUnboundFrag(expr[1], data) THEN Tail(expr[1]) ELSE Tail(expr[3]))

C13_Witness ==
    /\ Evaluated
    /\ expr = <<F_z, ADD, F_2>>
    /\ data = Ctx_empty
    /\ result = Err("Invalid or missing variable", <<"z">>)

\* the number of "(" fragments, among the open pending ones and those of e[i..], that
\* no later ")" closes; a ")" with nothing open closes nothing
RECURSIVE Unclosed(_, _, _)
Unclosed(e, i, open) ==
    IF i > Len(e) THEN open
    ELSE IF e[i] = LP THEN Unclosed(e, i + 1, open + 1)
    ELSE IF e[i] = RP THEN Unclosed(e, i + 1, IF open > 0 THEN open - 1 ELSE 0)
    ELSE Unclosed(e, i + 1, open)

IsOperatorFrag(f) == f # LP /\ f # RP /\ ~IsLiteral(f) /\ ~IsVariableFrag(f)

HasUnknownOperator == \E i \in 1..Len(expr) : IsOperatorFrag(expr[i]) /\ ~get_operator(expr[i]).some

\* C14: an expression whose operator symbols are all registered and that contains a
\* "(" with no matching later ")" fails with "Mismatched parentheses".
C14_UnclosedParenFails ==
    (Evaluated /\ ~HasUnknownOperator /\ Unclosed(expr, 1, 0) > 0)
    => result = Err("Mismatched parentheses", <<>>)

C14_Witness ==
    /\ Evaluated
    /\ expr = Test_unclosed
    /\ result = Err("Mismatched parentheses", <<>>)

\* C15: an expression with at least one operator fragment that is not in the
\* registry evaluates to an error, never to a number, wherever that fragment stands.
C15_UnknownOperatorFails ==
    /\ (Evaluated /\ HasUnknownOperator) => ~result.ok
    /\ (pc = "done" /\ HasUnknownOperator) => value.kind = "String"

\* "/ 5": the unknown operator is pushed on the empty stack without a lookup and
\* is rejected by the postfix evaluator
C15_Witness ==
    /\ pc = "done"
    /\ expr = <<DIV, <<"5">>>>
    /\ postfix = <<Number(Num(5)), Operator(DIV)>>
    /\ result = Err("Unknown operator", DIV)

\* the value stack before postfix token k, when the tokens before it succeed
StackBefore(k) ==
    evaluate_postfix_loop([stack |-> <<>>, err |-> NoErr], SubSeq(postfix, 1, k - 1), 1, data)

PostfixRan == Evaluated /\ expr # <<>> /\ shunting_yard(tokens).ok

\* postfix token k is a registered operator reached with too few values on the stack
Underflows(k) ==
    /\ postfix[k].type = "Operator"
    /\ get_operator(postfix[k].op).some
    /\ ~StackBefore(k).err.some
    /\ Len(StackBefore(k).stack) < (IF get_operator(postfix[k].op).val.is_unary THEN 1 ELSE 2)

\* C16: a binary operator reached with fewer than two values on the value stack, or
\* a unary operator reached with none, makes the evaluation fail with "Not enough
\* operands ..."; the operator is never applied to a missing or defaulted operand.
C16_NotEnoughOperands ==
    PostfixRan
    => /\ \A k \in 1..Len(postfix) :
            Underflows(k)
            => result = Err(IF get_operator(postfix[k].op).val.is_unary
                            THEN "Not enough operands for unary operator"
                            ELSE "Not enough operands for binary operator", <<>>)
       /\ (Len(expr) = 2 /\ IsLiteral(expr[1]) /\ expr[2] \in BinaryOps)
            => result = Err("Not enough operands for binary operator", <<>>)

C16_Witness ==
    /\ Evaluated
    /\ expr = <<<<"5">>, ADD>>
    /\ postfix = <<Number(Num(5)), Operator(ADD)>>
    /\ result = Err("Not enough operands for binary operator", <<>>)

\* C17: an expression without any fragment (empty or all whitespace) fails with
\* "Invalid expression" before the tokenizer, the parser or the postfix evaluator
\* runs, and eval renders it as that string, not as the number 0.
C17_EmptyExpression ==
    /\ pc \in {"tokenize", "shunting_yard", "evaluate_postfix"} => expr # <<>>
    /\ (Evaluated /\ expr = <<>>) => result = Err("Invalid expression", <<>>)
    /\ (pc = "done" /\ expr = <<>>) => value = JString([msg |-> "Invalid expression", arg |-> <<>>])

C17_Witness ==
    /\ pc = "done"
    /\ expr = <<>>
    /\ value = JString([msg |-> "Invalid expression", arg |-> <<>>])

\* C20 as claimed, for the eval of evaluator.rs and the eval of lib.rs: the value is
\* a JSON string exactly when the evaluation failed and a JSON number exactly when
\* it succeeded.
C20_StringIffFailed ==
    pc \in {"done", "lib_done"}
    => /\ value.kind = "String" <=> ~result.ok
       /\ value.kind = "Number" <=> result.ok

\* C20 amended: the eval of evaluator.rs returns a JSON string (the error message)
\* exactly when the evaluation failed and a JSON number exactly when it succeeded;
\* the eval of lib.rs returns the error message as a JSON string when the evaluation
\* failed and the engine's value unchanged, of whatever JSON type, when it succeeded.
C20_EvalRendering ==
    /\ pc = "done"
        => /\ value.kind = "String" <=> ~result.ok
           /\ value.kind = "Number" <=> result.ok
           /\ ~result.ok => value = JString([msg |-> result.err, arg |-> result.arg])
    /\ pc = "lib_done"
        => /\ ~result.ok => value = JString([msg |-> result.err, arg |-> result.arg])
           /\ result.ok => value = result.val

\* x % 0 succeeds with NaN, which is rendered as the number 0
C20_Witness ==
    /\ pc = "done"
    /\ expr = <<F_2, MOD, F_0>>
    /\ result = Ok(NaN)
    /\ value = JNumber(Num(0))

\* C18: evaluations interleaved in any order on their own contexts return what the
\* same evaluation returns when run alone, and a repeated call with the same
\* expression and context returns what the first call returned.
C18_NoSharedState ==
    \A t \in Tasks :
        LET k == tasks[t]
        IN  /\ k.pc = "evaluated" => k.result = evaluate(k.expr, k.data)
            /\ k.pc = "returned" => k.value = eval(k.expr, k.data)
            /\ (k.pc = "returned" /\ k.runs > 0) => k.value = k.first

\* one call has been repeated and has returned while another call, on another
\* expression and context, is between its tokenizer and its parser
C18_Witness ==
    /\ tasks[1].pc = "returned"
    /\ tasks[1].runs = 1
    /\ tasks[1].expr = <<F_x, MUL, F_y>>
    /\ tasks[1].data = Ctx_xy
    /\ tasks[1].value = JNumber(Num(8))
    /\ tasks[2].pc = "shunting_yard"
    /\ tasks[2].expr = <<F_2, ADD, F_m3>>

\* the parser state before the i-th token is read
ParserBefore(i) ==
    shunting_yard_loop([out |-> <<>>, stack |-> <<>>, err |-> NoErr], SubSeq(tokens, 1, i - 1), 1)

\* the number of LeftParen tokens among toks[1..i] that no later RightParen of
\* toks[1..i] has closed
RECURSIVE OpenParens(_, _)
OpenParens(toks, i) ==
    IF i = 0 THEN 0
    ELSE LET n == OpenParens(toks, i - 1)
         IN  CASE toks[i].type = "LeftParen" -> n + 1
               [] toks[i].type = "RightParen" -> IF n > 0 THEN n - 1 ELSE 0
               [] OTHER -> n

Reverse(q) == [j \in 1..Len(q) |-> q[Len(q) + 1 - j]]

Parsed == pc \in {"evaluate_postfix", "evaluated", "done"} /\ expr # <<>>

AllRegistered(toks) ==
    \A j \in 1..Len(toks) : toks[j].type = "Operator" => get_operator(toks[j].op).some

ParseErrors == {"Mismatched parentheses", "Unknown operator"}

\* C21: a RightParen with no unclosed LeftParen before it is no parse error: the
\* parser moves every pending operator to the output in stack order, leaves the
\* stack empty and goes on; a token sequence without LeftParen and without
\* unregistered operators never fails to parse, and "5 + 3 )" evaluates to 8.
C21_StrayRightParenTolerated ==
    /\ Parsed
        => \A i \in 1..Len(tokens) :
              (tokens[i].type = "RightParen" /\ OpenParens(tokens, i - 1) = 0
                 /\ ~ParserBefore(i).err.some)
              => /\ ~ParserBefore(i + 1).err.some
                 /\ ParserBefore(i + 1).stack = <<>>
                 /\ ParserBefore(i + 1).out = ParserBefore(i).out \o Reverse(ParserBefore(i).stack)
    /\ (Parsed /\ OpenParens(tokens, Len(tokens)) = 0 /\ AllRegistered(tokens)
          /\ \A j \in 1..Len(tokens) : tokens[j].type # "LeftParen")
        => (pc = "evaluate_postfix" \/ result.ok \/ result.err \notin ParseErrors)
    /\ (Evaluated /\ expr = Test_stray_rparen) => result = Ok(Num(8))

C21_Witness ==
    /\ pc = "done"
    /\ expr = Test_stray_rparen
    /\ postfix = <<Number(Num(5)), Number(Num(3)), Operator(ADD)>>
    /\ value = JNumber(Num(8))

Tokenized == pc \in {"shunting_yard", "evaluate_postfix", "evaluated", "done"} /\ expr # <<>>

\* C22: a non-empty expression of k fragments yields exactly k tokens in fragment
\* order, classified by the first matching rule: "(" is LeftParen, ")" is
\* RightParen, a float literal is Number, a fragment starting with `$` is Variable
\* of the name without the sigil, anything else is Operator of the fragment; a
\* parenthesis glued to other characters is an Operator.
C22_TokenizeClassifies ==
    Tokenized
    => /\ Len(tokens) = Len(expr)
       /\ \A i \in 1..Len(expr) :
             LET f == expr[i]
             IN  /\ f = LP => tokens[i] = LeftParen
                 /\ f = RP => tokens[i] = RightParen
                 /\ (f \notin {LP, RP} /\ IsLiteral(f)) => tokens[i] = Number(parse_f64(f).val)
                 /\ (f \notin {LP, RP} /\ ~IsLiteral(f) /\ f[1] = "$")
                       => tokens[i] = Variable(SubSeq(f, 2, Len(f)))
                 /\ (f \notin {LP, RP} /\ ~IsLiteral(f) /\ f[1] # "$") => tokens[i] = Operator(f)
                 /\ (Len(f) > 1 /\ (f[1] = "(" \/ f[Len(f)] = ")") /\ f[1] # "$")
                       => tokens[i] = Operator(f)

C22_Witness ==
    /\ pc = "shunting_yard"
    /\ expr = <<<<"(", "5">>, F_x, RP>>
    /\ tokens = <<Operator(<<"(", "5">>), Variable(<<"x">>), RightParen>>

\* C23: the builder is chosen by the kind string. A "table" spec gives a
\* DecisionTable node with the spec's rule rows unchanged, one input and one output
\* field per declared name in order with id = name = field key, and hit policy
\* First; a "function" spec gives a Function node whose body is spec.function; an
\* "expression" spec gives an Expression node.
C23_BuilderDispatch ==
    Compiled
    => \A i \in 1..Len(flow) :
          LET d == flow[i]
              n == graph.nodes[i + 1]
          IN  /\ d.kind = "table"
                  => /\ n.kind = "DecisionTableNode"
                     /\ n.content.hit_policy = "First"
                     /\ n.content.rules = d.rules
                     /\ Len(n.content.inputs) = Len(d.inputs)
                     /\ Len(n.content.outputs) = Len(d.outputs)
                     /\ \A j \in 1..Len(d.inputs) :
                           n.content.inputs[j] =
                               [id |-> d.inputs[j], name |-> d.inputs[j], field |-> Some(d.inputs[j])]
                     /\ \A j \in 1..Len(d.outputs) :
                           n.content.outputs[j] =
                               [id |-> d.outputs[j], name |-> d.outputs[j], field |-> d.outputs[j]]
              /\ d.kind = "function"
                  => /\ n.kind = "FunctionNode"
                     /\ n.content = [Version1 |-> d.function]
              /\ d.kind = "expression" => n.kind = "ExpressionNode"

C23_Witness ==
    /\ Compiled
    /\ Len(flow) = 2
    /\ flow[1].kind = "table" /\ flow[1].rules = <<Row1, Row2>> /\ flow[1].inputs = <<"x", "y">>
    /\ graph.nodes[2].content.hit_policy = "First"
    /\ Len(graph.nodes[2].content.inputs) = 2
    /\ flow[2].kind = "function"
    /\ graph.nodes[3].content = [Version1 |-> "return 1"]

\* C24: an "expression" spec with at least one input gives a node with exactly one
\* named expression whose id and key are the first declared input and whose value
\* is spec.expression; the inputs after the first change nothing in the node.
C24_ExpressionNode ==
    Compiled
    => \A i \in 1..Len(flow) :
          LET d == flow[i]
              n == graph.nodes[i + 1]
          IN  (d.kind = "expression" /\ d.inputs # <<>>)
              => /\ n.content.expressions =
                        <<[id |-> d.inputs[1], key |-> d.inputs[1], value |-> d.expression]>>
                 /\ n = create_node([d EXCEPT !.inputs = <<d.inputs[1]>>]).node

C24_Witness ==
    /\ Compiled
    /\ Len(flow) = 1
    /\ flow[1].kind = "expression"
    /\ flow[1].inputs = <<"x", "y">>
    /\ graph.nodes[2].content.expressions = <<[id |-> "x", key |-> "x", value |-> "t.csv"]>>

\* C25: whenever the evaluation fails with "Unknown operator: X", X is a symbol
\* that is not in the operator registry.
C25_UnknownOperatorNamesUnregistered ==
    (Evaluated /\ ~result.ok /\ result.err = "Unknown operator")
    => ~get_operator(result.arg).some

\* postfix token k is the first one whose evaluation fails
TokenFails(k) ==
    /\ ~StackBefore(k).err.some
    /\ evaluate_postfix_token(StackBefore(k), postfix[k], data).err.some

\* C26: evaluate runs empty-check, tokenize, parse, evaluate-postfix in this order
\* and returns the first failure: a stage's output is unset until the stage before
\* it succeeded; when the parser fails its error is the result, the postfix
\* evaluator does not run and the context is not read ("( $z + 1" reports
\* mismatched parentheses); within the postfix evaluation the error is that of the
\* earliest failing token in postfix order.
C26_FirstFailureWins ==
    /\ pc = "tokenize" => (expr # <<>> /\ tokens = <<>> /\ postfix = <<>> /\ result = Pending)
    /\ pc = "shunting_yard" => (expr # <<>> /\ postfix = <<>> /\ result = Pending)
    /\ pc = "evaluate_postfix" => (shunting_yard(tokens) = Ok(postfix) /\ result = Pending)
    /\ (Evaluated /\ expr = <<>>) => (tokens = <<>> /\ postfix = <<>>)
    /\ (Evaluated /\ expr # <<>> /\ ~shunting_yard(tokens).ok)
          => (result = shunting_yard(tokens) /\ postfix = <<>>)
    /\ (Evaluated /\ expr = Test_unclosed_var) => result = Err("Mismatched parentheses", <<>>)
    /\ PostfixRan
          => /\ postfix = shunting_yard(tokens).val
             /\ \A k \in 1..Len(postfix) :
                   TokenFails(k)
                   => result = evaluate_postfix_token(StackBefore(k), postfix[k], data).err.val
    /\ (Evaluated /\ expr = <<F_z, DIV>>) => result = Err("Invalid or missing variable", <<"z">>)

C26_Witness ==
    /\ pc = "done"
    /\ expr = Test_unclosed_var
    /\ data = Ctx_empty
    /\ postfix = <<>>
    /\ value = JString([msg |-> "Mismatched parentheses", arg |-> <<>>])

\* C27: for literals a, b and a registered binary operator op, the prefix form
\* "op a b" and the postfix form "a b op" both succeed with the value of the infix
\* form "a op b".
C27_PlacementFree ==
    (Evaluated /\ Len(expr) = 3)
    => /\ (expr[1] \in BinaryOps /\ IsLiteral(expr[2]) /\ IsLiteral(expr[3]))
            => /\ result = Ok(Arith(expr[1], Val(expr[2], data), Val(expr[3], data)))
               /\ result = evaluate(<<expr[2], expr[1], expr[3]>>, data)
       /\ (IsLiteral(expr[1]) /\ IsLiteral(expr[2]) /\ expr[3] \in BinaryOps)
            => /\ result = Ok(Arith(expr[3], Val(expr[1], data), Val(expr[2], data)))
               /\ result = evaluate(<<expr[1], expr[3], expr[2]>>, data)
       /\ (IsLiteral(expr[1]) /\ expr[2] \in BinaryOps /\ IsLiteral(expr[3]))
            => result = Ok(Arith(expr[2], Val(expr[1], data), Val(expr[3], data)))

C27_Witness ==
    /\ pc = "done"
    /\ expr = <<SUB, F_2, F_m3>>
    /\ postfix = <<Number(Num(2)), Number(Num(-3)), Operator(SUB)>>
    /\ value = JNumber(Num(5))

ParseSucceeded == pc = "evaluate_postfix" \/ PostfixRan

IsParen(t) == t.type \in {"LeftParen", "RightParen"}

Occurrences(t, q) == Cardinality({j \in 1..Len(q) : q[j] = t})

\* C28: whenever the parser succeeds, its output holds each Number, Variable and
\* Operator token as often as the input does and nothing else (its length is the
\* number of non-parenthesis input tokens), and the Number and Variable tokens
\* keep their relative order.
C28_PostfixIsPermutation ==
    ParseSucceeded
    => /\ Len(postfix) = Len(SelectSeq(tokens, LAMBDA t : ~IsParen(t)))
       /\ \A j \in 1..Len(tokens) :
             ~IsParen(tokens[j]) => Occurrences(tokens[j], postfix) = Occurrences(tokens[j], tokens)
       /\ \A k \in 1..Len(postfix) :
             Occurrences(postfix[k], postfix) = Occurrences(postfix[k], tokens)
       /\ SelectSeq(postfix, LAMBDA t : t.type \in {"Number", "Variable"})
             = SelectSeq(tokens, LAMBDA t : t.type \in {"Number", "Variable"})

C28_Witness ==
    /\ pc = "evaluate_postfix"
    /\ expr = <<LP, F_2, ADD, F_x, RP, MUL, F_m3>>
    /\ postfix = <<Number(Num(2)), Variable(<<"x">>), Operator(ADD), Number(Num(-3)), Operator(MUL)>>

\* C30: no successful parser output contains a LeftParen or a RightParen, so the
\* evaluation never fails with "Unexpected token in postfix expression".
C30_NoParenInPostfix ==
    /\ \A k \in 1..Len(postfix) : ~IsParen(postfix[k])
    /\ Evaluated => (result.ok \/ result.err # "Unexpected token in postfix expression")

C30_Witness ==
    /\ pc = "done"
    /\ expr = <<F_2, MUL, LP, F_2, ADD, F_m3, RP>>
    /\ postfix = <<Number(Num(2)), Number(Num(2)), Number(Num(-3)), Operator(ADD), Operator(MUL)>>
    /\ result = Ok(Num(-2))

\* what is left to do in the parser: two per unread token, one per stack entry
ParseMeasure(r) == 2 * (Len(r.toks) + 1 - r.i) + Len(r.stack)

StackOpsBounded ==
    \A j \in 1..Len(run.toks) :
        /\ run.pushed[j] <= 1
        /\ run.popped[j] <= run.pushed[j]
        /\ (run.pushed[j] - run.popped[j] = 1) <=> (\E n \in 1..Len(run.stack) : run.stack[n] = j)

ReturnsWhatTheFunctionsReturn ==
    run.phase = "returned"
    => LET p == shunting_yard(run.toks)
       IN  run.result = IF p.ok THEN evaluate_postfix(p.val, run.data) ELSE p

IterationProgresses ==
    /\ (run.phase = "parse" /\ run'.phase = "parse") => (ParseMeasure(run') < ParseMeasure(run))
    /\ (run.phase = "eval" /\ run'.phase = "eval") => (run'.k = run.k + 1)

\* C29: for every token sequence the parser and the postfix evaluator terminate
\* with a result or an error: each token is pushed onto the operator stack at most
\* once and popped at most once, every loop iteration of the parser pops a stack
\* entry, consumes a token or leaves the loop, every iteration of the evaluator
\* consumes a postfix token, and the run returns.
C29_Terminates ==
    /\ [](StackOpsBounded /\ ReturnsWhatTheFunctionsReturn)
    /\ [][IterationProgresses]_vars
    /\ <>(run.phase = "returned")

C29_Witness ==
    /\ run.phase = "returned"
    /\ run.toks = tokenize(Test_paren_spaced)
    /\ run.pushed = <<1, 0, 1, 0, 0, 1, 0>>
    /\ run.popped = <<1, 0, 1, 0, 0, 1, 0>>
    /\ run.result = Ok(Num(16))

====
